---- MODULE Spec2Model ----
(***************************************************************************)
(* Version chain of one primary key (src/backend/storage/vcluster/vchain.c) *)
(* VChainLookupLocator, VChainAppendLocator and VChainFixUpOne, each step  *)
(* by step at the granularity of one shared-memory access, run by          *)
(* concurrent inserters, one cutter and one reader. The build is part of   *)
(* the state: whether assert() is compiled in, and whether the plain link  *)
(* stores of an Append take effect in program order.                       *)
(***************************************************************************)
EXTENDS Integers, FiniteSets, Sequences, TLC

\* ------------------------------------------------------------------ bounds
NumApp == 3          \* inserters; inserter a appends the version node a
MaxCut == 2          \* removals the cutter may start
NumAnchorSlots == 2  \* arena slots from which dummy (anchor) nodes are taken

\* ------------------------------------------------------------- identifiers
NULL == 0            \* InvalidDsaPointer: a link that was never set
Cutter == 0          \* process id of the cutter
Reader == 0 - 1      \* process id of the reader
NotFound == NULL     \* VChainLookupLocator returned false
Pending == 0 - 1     \* VChainLookupLocator has not returned yet

App == 1..NumApp
VNodes == 1..NumApp
AnchorSlots == (NumApp + 1)..(NumApp + NumAnchorSlots)
Nodes == VNodes \cup AnchorSlots
Workers == App \cup {Cutter}

VL_WINNER == "VL_WINNER"
VL_APPEND == "VL_APPEND"
VL_DELETE == "VL_DELETE"
Flags == {VL_WINNER, VL_APPEND, VL_DELETE}

\* creatorStamp of version node n (set by the writer before Append)
xminOf(n) == 10 * n
Stamps == {xminOf(n) : n \in VNodes}

VARIABLES
  index,          \* vchain hash entry of the key: NULL or the dsap of its dummy node
  nanchor,        \* number of dummy nodes allocated so far
  lockX,          \* partition lock: the exclusive holder, or NULL
  lockS,          \* partition lock: the shared holders
  prev, next,     \* dsap_prev, dsap_next of every node
  flag,           \* VLocator.flag of every node
  timestamp,      \* VLocator.timestamp of every node (0: not stamped)
  clock,          \* the value GetCurrentTimestamp() returns next
  ndebug,         \* the build: TRUE when assert() is compiled out
  ordered,        \* the build: TRUE when it keeps the plain stores of l.203-206
                  \* in program order (no barrier separates them)
  pc,             \* position of every inserter and of the cutter
  dsap_chain,     \* inserter local: the resolved dummy node
  dsap_tail_prev, \* inserter local: the tail read at retry
  todo,           \* inserter: the link stores (1..4 for l.203..l.206) not yet in effect
  mid, fx_prev, fx_next,  \* VChainFixUpOne locals of the process running it
  cuts,           \* removals the cutter has started
  targeted,       \* nodes the cutter has exchanged on
  lpc,            \* position of the reader
  lchain,         \* reader local: chain
  locator,        \* reader local: locator
  snapshot,       \* reader argument: the stamps XidInMVCCSnapshot reports in progress
  published,      \* the reader's epoch is set (SetTimestamp .. ClearTimestamp)
  ret,            \* reader result: Pending, NotFound (false), or the node returned with true
  linked,         \* history: nodes whose store to chain->dsap_prev was executed
  fixed,          \* history: nodes on which a VChainFixUpOne completed
  fx_done,        \* history: unlink stores executed by a process's VChainFixUpOne call
  returned        \* history: the Append calls that had returned when the Lookup started

shared == <<index, nanchor, lockX, lockS, prev, next, flag, timestamp, clock>>
alocals == <<dsap_chain, dsap_tail_prev, todo>>
wlocals == <<pc, mid, fx_prev, fx_next>>
cvars == <<cuts, targeted>>
lvars == <<lpc, lchain, locator, snapshot, published, ret>>
hist == <<linked, fixed, fx_done, returned>>
vars == <<shared, ndebug, ordered, alocals, wlocals, cvars, lvars, hist>>

\* -------------------------------------------------------------- pure parts
\* XidInMVCCSnapshot(xmin, snapshot): TRUE when the creator is not visible
XidInMVCCSnapshot(xid, snap) == xid \in snap

\* VChainHashLookup: found, and the dsap of the dummy node
VChainHashLookup(idx) == [found |-> idx # NULL, dsap |-> idx]

\* VChainHashInsert: get-or-create of the key's dummy node. An existing entry
\* is returned untouched; otherwise the next arena slot becomes the dummy node.
VChainHashInsert(idx, n) ==
  IF idx # NULL
    THEN [created |-> FALSE, dsap |-> idx, n |-> n]
    ELSE [created |-> TRUE, dsap |-> NumApp + n + 1, n |-> n + 1]

\* The nodes met walking dsap_prev from node n until the dummy node c
RECURSIVE WalkPrev(_, _, _)
WalkPrev(n, c, fuel) ==
  IF n = c \/ n = NULL \/ fuel = 0 THEN <<>>
  ELSE <<n>> \o WalkPrev(prev[n], c, fuel - 1)

RECURSIVE WalkNext(_, _, _)
WalkNext(n, c, fuel) ==
  IF n = c \/ n = NULL \/ fuel = 0 THEN <<>>
  ELSE <<n>> \o WalkNext(next[n], c, fuel - 1)

Range(s) == {s[i] : i \in 1..Len(s)}
\* tail first: newest to oldest
ChainPrev(c) == IF c = NULL THEN <<>> ELSE WalkPrev(prev[c], c, NumApp + 1)
\* head first: oldest to newest
ChainNext(c) == IF c = NULL THEN <<>> ELSE WalkNext(next[c], c, NumApp + 1)

InFlight(a) == pc[a] \notin {"idle", "done", "aborted", "crashed"}

\* -------------------------------------------------------------------- Init
Init ==
  /\ index = NULL
  /\ nanchor = 0
  /\ lockX = NULL
  /\ lockS = {}
  /\ prev = [n \in Nodes |-> NULL]
  /\ next = [n \in Nodes |-> NULL]
  /\ flag = [n \in Nodes |-> VL_WINNER]
  /\ timestamp = [n \in Nodes |-> 0]
  /\ clock = 1
  /\ ndebug \in BOOLEAN
  /\ ordered \in BOOLEAN
  /\ pc = [p \in Workers |-> "idle"]
  /\ dsap_chain = [a \in App |-> NULL]
  /\ dsap_tail_prev = [a \in App |-> NULL]
  /\ todo = [a \in App |-> {}]
  /\ mid = [p \in Workers |-> NULL]
  /\ fx_prev = [p \in Workers |-> NULL]
  /\ fx_next = [p \in Workers |-> NULL]
  /\ cuts = 0
  /\ targeted = {}
  /\ lpc = "idle"
  /\ lchain = NULL
  /\ locator = NULL
  /\ snapshot = {}
  /\ published = FALSE
  /\ ret = Pending
  /\ linked = {}
  /\ fixed = {}
  /\ fx_done = [p \in Workers |-> 0]
  /\ returned = {}

\* ------------------------------------------------- VChainAppendLocator
\* l.154: LWLockAcquire(partition_lock, LW_SHARED)
AppStart(a) ==
  /\ pc[a] = "idle"
  /\ lockX = NULL
  /\ lockS' = lockS \cup {a}
  /\ pc' = [pc EXCEPT ![a] = "a_lookup"]
  /\ UNCHANGED <<index, nanchor, lockX, prev, next, flag, timestamp, clock, ndebug, ordered,
                 alocals, mid, fx_prev, fx_next, cvars, lvars, hist>>

\* l.155-163: VChainHashLookup under the shared lock, then LWLockRelease
AppLookup(a) ==
  /\ pc[a] = "a_lookup"
  /\ LET r == VChainHashLookup(index) IN
       /\ lockS' = lockS \ {a}
       /\ IF r.found
            THEN /\ dsap_chain' = [dsap_chain EXCEPT ![a] = r.dsap]
                 /\ pc' = [pc EXCEPT ![a] = "a_retry"]
            ELSE /\ dsap_chain' = dsap_chain
                 /\ pc' = [pc EXCEPT ![a] = "a_xlock"]
  /\ UNCHANGED <<index, nanchor, lockX, prev, next, flag, timestamp, clock, ndebug, ordered,
                 dsap_tail_prev, todo, mid, fx_prev, fx_next, cvars, lvars, hist>>

\* l.164: LWLockAcquire(partition_lock, LW_EXCLUSIVE)
AppXLock(a) ==
  /\ pc[a] = "a_xlock"
  /\ lockX = NULL
  /\ lockS = {}
  /\ lockX' = a
  /\ pc' = [pc EXCEPT ![a] = "a_insert"]
  /\ UNCHANGED <<index, nanchor, lockS, prev, next, flag, timestamp, clock, ndebug, ordered,
                 alocals, mid, fx_prev, fx_next, cvars, lvars, hist>>

\* AppInsert with an insert that is not get-or-create: it allocates a dummy
\* node whether or not the key already has one
AppInsertAlways(a) ==
  /\ pc[a] = "a_insert"
  /\ nanchor < NumAnchorSlots
  /\ LET r == VChainHashInsert(NULL, nanchor) IN
       /\ index' = r.dsap
       /\ nanchor' = r.n
       /\ dsap_chain' = [dsap_chain EXCEPT ![a] = r.dsap]
       /\ prev' = [prev EXCEPT ![r.dsap] = r.dsap]
       /\ next' = [next EXCEPT ![r.dsap] = r.dsap]
       /\ flag' = [flag EXCEPT ![r.dsap] = VL_WINNER]
  /\ lockX' = NULL
  /\ pc' = [pc EXCEPT ![a] = "a_retry"]
  /\ UNCHANGED <<lockS, timestamp, clock, ndebug, ordered, dsap_tail_prev, todo, mid, fx_prev,
                 fx_next, cvars, lvars, hist>>

\* l.167-168: VChainHashInsert under the exclusive lock, then LWLockRelease
AppInsert(a) ==
  /\ pc[a] = "a_insert"
  /\ LET r == VChainHashInsert(index, nanchor) IN
       /\ index' = r.dsap
       /\ nanchor' = r.n
       /\ dsap_chain' = [dsap_chain EXCEPT ![a] = r.dsap]
       /\ prev' = IF r.created THEN [prev EXCEPT ![r.dsap] = r.dsap] ELSE prev
       /\ next' = IF r.created THEN [next EXCEPT ![r.dsap] = r.dsap] ELSE next
       /\ flag' = IF r.created THEN [flag EXCEPT ![r.dsap] = VL_WINNER] ELSE flag
  /\ lockX' = NULL
  /\ pc' = [pc EXCEPT ![a] = "a_retry"]
  /\ UNCHANGED <<lockS, timestamp, clock, ndebug, ordered, dsap_tail_prev, todo, mid, fx_prev,
                 fx_next, cvars, lvars, hist>>

\* l.177-184 (retry:): dsap_tail_prev = chain->dsap_prev
AppReadTail(a) ==
  /\ pc[a] = "a_retry"
  /\ dsap_tail_prev' = [dsap_tail_prev EXCEPT ![a] = prev[dsap_chain[a]]]
  /\ pc' = [pc EXCEPT ![a] = "a_xchg"]
  /\ UNCHANGED <<shared, ndebug, ordered, dsap_chain, todo, mid, fx_prev, fx_next,
                 cvars, lvars, hist>>

\* Where the inserter goes on the value its exchange returned (l.189, l.201):
\* VL_DELETE loses; anything else passes assert(flag == VL_WINNER) or, the
\* assertion failing, aborts the process unless the build compiled it out.
AfterExchange(old) ==
  IF old = VL_DELETE THEN "a_spin"
  ELSE IF old = VL_WINNER \/ ndebug THEN "a_link"
  ELSE "aborted"

LinkStores == 1..4

\* l.184-201: tail_prev = dsa_get_address(dsap_tail_prev);
\* flag = __sync_lock_test_and_set(&tail_prev->flag, VL_APPEND).
\* dsa_get_address(InvalidDsaPointer) is NULL: the exchange then faults.
AppExchange(a) ==
  /\ pc[a] = "a_xchg"
  /\ LET tp == dsap_tail_prev[a] IN
       IF tp = NULL
         THEN /\ pc' = [pc EXCEPT ![a] = "crashed"]
              /\ UNCHANGED <<flag, todo>>
         ELSE /\ flag' = [flag EXCEPT ![tp] = VL_APPEND]
              /\ pc' = [pc EXCEPT ![a] = AfterExchange(flag[tp])]
              /\ todo' = [todo EXCEPT ![a] =
                            IF AfterExchange(flag[tp]) = "a_link" THEN LinkStores ELSE {}]
  /\ UNCHANGED <<index, nanchor, lockX, lockS, prev, next, timestamp, clock, ndebug, ordered,
                 dsap_chain, dsap_tail_prev, mid, fx_prev, fx_next, cvars, lvars, hist>>

\* l.191-197: the spin ends when chain->dsap_prev has moved; goto retry
AppSpin(a) ==
  /\ pc[a] = "a_spin"
  /\ prev[dsap_chain[a]] # dsap_tail_prev[a]
  /\ pc' = [pc EXCEPT ![a] = "a_retry"]
  /\ UNCHANGED <<shared, ndebug, ordered, alocals, mid, fx_prev, fx_next,
                 cvars, lvars, hist>>

\* The four stores of l.203-206 are plain stores to shared memory with no
\* barrier between them: store k takes effect next when it is pending and,
\* in a build that keeps program order, no earlier store is pending.
MayStore(a, k) ==
  /\ pc[a] = "a_link"
  /\ k \in todo[a]
  /\ ordered => \A j \in todo[a] : k <= j

\* the inserter's position once store k is in effect
Stored(a, k) ==
  /\ todo' = [todo EXCEPT ![a] = @ \ {k}]
  /\ pc' = [pc EXCEPT ![a] = IF todo[a] = {k} THEN "a_unmark" ELSE "a_link"]

\* l.203: locator->dsap_prev = dsap_tail_prev
AppLink1(a) ==
  /\ MayStore(a, 1)
  /\ prev' = [prev EXCEPT ![a] = dsap_tail_prev[a]]
  /\ Stored(a, 1)
  /\ UNCHANGED <<index, nanchor, lockX, lockS, next, flag, timestamp, clock, ndebug, ordered,
                 dsap_chain, dsap_tail_prev, mid, fx_prev, fx_next, cvars, lvars, hist>>

\* l.204: locator->dsap_next = chain->dsap
AppLink2(a) ==
  /\ MayStore(a, 2)
  /\ next' = [next EXCEPT ![a] = dsap_chain[a]]
  /\ Stored(a, 2)
  /\ UNCHANGED <<index, nanchor, lockX, lockS, prev, flag, timestamp, clock, ndebug, ordered,
                 dsap_chain, dsap_tail_prev, mid, fx_prev, fx_next, cvars, lvars, hist>>

\* l.205: tail_prev->dsap_next = locator->dsap
AppLink3(a) ==
  /\ MayStore(a, 3)
  /\ next' = [next EXCEPT ![dsap_tail_prev[a]] = a]
  /\ Stored(a, 3)
  /\ UNCHANGED <<index, nanchor, lockX, lockS, prev, flag, timestamp, clock, ndebug, ordered,
                 dsap_chain, dsap_tail_prev, mid, fx_prev, fx_next, cvars, lvars, hist>>

\* l.206: chain->dsap_prev = locator->dsap
AppLink4(a) ==
  /\ MayStore(a, 4)
  /\ prev' = [prev EXCEPT ![dsap_chain[a]] = a]
  /\ Stored(a, 4)
  /\ linked' = linked \cup {a}
  /\ UNCHANGED <<index, nanchor, lockX, lockS, next, flag, timestamp, clock, ndebug, ordered,
                 dsap_chain, dsap_tail_prev, mid, fx_prev, fx_next, cvars, lvars,
                 fixed, fx_done, returned>>

\* l.209-214: flag = __sync_lock_test_and_set(&tail_prev->flag, VL_WINNER);
\* on VL_DELETE call VChainFixUpOne(tail_prev), else return. tail_prev is not
\* read again and is cleared here; mid carries the argument of the call.
AppUnmark(a) ==
  /\ pc[a] = "a_unmark"
  /\ LET tp == dsap_tail_prev[a] IN
       /\ flag' = [flag EXCEPT ![tp] = VL_WINNER]
       /\ IF flag[tp] = VL_DELETE
            THEN /\ pc' = [pc EXCEPT ![a] = "fx_prev"]
                 /\ mid' = [mid EXCEPT ![a] = tp]
                 /\ fx_done' = [fx_done EXCEPT ![a] = 0]
            ELSE /\ pc' = [pc EXCEPT ![a] = "done"]
                 /\ mid' = mid
                 /\ fx_done' = fx_done
       /\ dsap_tail_prev' = [dsap_tail_prev EXCEPT ![a] = NULL]
  /\ UNCHANGED <<index, nanchor, lockX, lockS, prev, next, timestamp, clock, ndebug, ordered,
                 dsap_chain, todo, fx_prev, fx_next, cvars, lvars, linked, fixed, returned>>

\* ------------------------------------------------------ VChainFixUpOne
\* where VChainFixUpOne returns to: the cutter's loop, or the end of Append
FixReturn(p) == IF p = Cutter THEN "idle" ELSE "done"

\* l.234: dsap_prev = mid->dsap_prev
FixReadPrev(p) ==
  /\ pc[p] = "fx_prev"
  /\ fx_prev' = [fx_prev EXCEPT ![p] = prev[mid[p]]]
  /\ pc' = [pc EXCEPT ![p] = "fx_next"]
  /\ UNCHANGED <<shared, ndebug, ordered, alocals, mid, fx_next, cvars, lvars, hist>>

\* l.235: dsap_next = mid->dsap_next
FixReadNext(p) ==
  /\ pc[p] = "fx_next"
  /\ fx_next' = [fx_next EXCEPT ![p] = next[mid[p]]]
  /\ pc' = [pc EXCEPT ![p] = "fx_store1"]
  /\ UNCHANGED <<shared, ndebug, ordered, alocals, mid, fx_prev, cvars, lvars, hist>>

\* FixStore1 that also stamps the node, ahead of the second unlink store
FixStore1Stamping(p) ==
  /\ pc[p] = "fx_store1"
  /\ next' = [next EXCEPT ![fx_prev[p]] = fx_next[p]]
  /\ timestamp' = [timestamp EXCEPT ![mid[p]] = clock]
  /\ clock' = clock + 1
  /\ fx_done' = [fx_done EXCEPT ![p] = @ + 1]
  /\ pc' = [pc EXCEPT ![p] = "fx_store2"]
  /\ UNCHANGED <<index, nanchor, lockX, lockS, prev, flag, ndebug, ordered,
                 alocals, mid, fx_prev, fx_next, cvars, lvars, linked,
                 fixed, returned>>

\* l.237-241: prev = dsa_get_address(dsap_prev), next = dsa_get_address(dsap_next);
\* prev->dsap_next = dsap_next. A store through dsa_get_address(InvalidDsaPointer)
\* faults.
FixStore1(p) ==
  /\ pc[p] = "fx_store1"
  /\ IF fx_prev[p] = NULL
       THEN /\ pc' = [pc EXCEPT ![p] = "crashed"]
            /\ UNCHANGED <<next, fx_done>>
       ELSE /\ next' = [next EXCEPT ![fx_prev[p]] = fx_next[p]]
            /\ fx_done' = [fx_done EXCEPT ![p] = @ + 1]
            /\ pc' = [pc EXCEPT ![p] = "fx_store2"]
  /\ UNCHANGED <<index, nanchor, lockX, lockS, prev, flag, timestamp, clock, ndebug, ordered,
                 alocals, mid, fx_prev, fx_next, cvars, lvars, linked,
                 fixed, returned>>

\* l.242: next->dsap_prev = dsap_prev
FixStore2(p) ==
  /\ pc[p] = "fx_store2"
  /\ IF fx_next[p] = NULL
       THEN /\ pc' = [pc EXCEPT ![p] = "crashed"]
            /\ UNCHANGED <<prev, fx_done>>
       ELSE /\ prev' = [prev EXCEPT ![fx_next[p]] = fx_prev[p]]
            /\ fx_done' = [fx_done EXCEPT ![p] = @ + 1]
            /\ pc' = [pc EXCEPT ![p] = "fx_stamp"]
  /\ UNCHANGED <<index, nanchor, lockX, lockS, next, flag, timestamp, clock, ndebug, ordered,
                 alocals, mid, fx_prev, fx_next, cvars, lvars, linked,
                 fixed, returned>>

\* FixStamp that also resets the links of the node it unlinked
FixStampClearing(p) ==
  /\ pc[p] = "fx_stamp"
  /\ timestamp' = [timestamp EXCEPT ![mid[p]] = clock]
  /\ prev' = [prev EXCEPT ![mid[p]] = NULL]
  /\ next' = [next EXCEPT ![mid[p]] = NULL]
  /\ clock' = clock + 1
  /\ fixed' = fixed \cup {mid[p]}
  /\ pc' = [pc EXCEPT ![p] = FixReturn(p)]
  /\ mid' = [mid EXCEPT ![p] = NULL]
  /\ fx_prev' = [fx_prev EXCEPT ![p] = NULL]
  /\ fx_next' = [fx_next EXCEPT ![p] = NULL]
  /\ fx_done' = [fx_done EXCEPT ![p] = 0]
  /\ UNCHANGED <<index, nanchor, lockX, lockS, flag, ndebug, ordered,
                 alocals, cvars, lvars, linked, returned>>

\* l.245-249: pg_memory_barrier(); mid->timestamp = GetCurrentTimestamp();
\* return, which ends the lifetime of the locals
FixStamp(p) ==
  /\ pc[p] = "fx_stamp"
  /\ timestamp' = [timestamp EXCEPT ![mid[p]] = clock]
  /\ clock' = clock + 1
  /\ fixed' = fixed \cup {mid[p]}
  /\ pc' = [pc EXCEPT ![p] = FixReturn(p)]
  /\ mid' = [mid EXCEPT ![p] = NULL]
  /\ fx_prev' = [fx_prev EXCEPT ![p] = NULL]
  /\ fx_next' = [fx_next EXCEPT ![p] = NULL]
  /\ fx_done' = [fx_done EXCEPT ![p] = 0]
  /\ UNCHANGED <<index, nanchor, lockX, lockS, prev, next, flag, ndebug, ordered,
                 alocals, cvars, lvars, linked, returned>>

\* -------------------------------------------------------------- the cutter
\* The cutter exchanges VL_DELETE into the flag of a linked version node: on
\* VL_WINNER it was granted the node and runs VChainFixUpOne, on VL_APPEND the
\* inserter holding the node runs it instead.
CutExchange(t) ==
  /\ pc[Cutter] = "idle"
  /\ cuts < MaxCut
  /\ t \in Range(ChainPrev(index)) \ targeted
  /\ flag' = [flag EXCEPT ![t] = VL_DELETE]
  /\ cuts' = cuts + 1
  /\ targeted' = targeted \cup {t}
  /\ IF flag[t] = VL_WINNER
       THEN /\ pc' = [pc EXCEPT ![Cutter] = "fx_prev"]
            /\ mid' = [mid EXCEPT ![Cutter] = t]
            /\ fx_done' = [fx_done EXCEPT ![Cutter] = 0]
       ELSE /\ pc' = pc
            /\ mid' = mid
            /\ fx_done' = fx_done
  /\ UNCHANGED <<index, nanchor, lockX, lockS, prev, next, timestamp, clock, ndebug, ordered,
                 alocals, fx_prev, fx_next, lvars, linked, fixed, returned>>

\* ------------------------------------------------- VChainLookupLocator
\* l.81: LWLockAcquire(partition_lock, LW_SHARED), for a call with snapshot s
LookStart(s) ==
  /\ lpc \in {"idle", "done"}
  /\ lockX = NULL
  /\ lockS' = lockS \cup {Reader}
  /\ snapshot' = s
  /\ ret' = Pending
  /\ lpc' = "l_lookup"
  /\ returned' = {a \in App : pc[a] = "done"}
  /\ UNCHANGED <<index, nanchor, lockX, prev, next, flag, timestamp, clock, ndebug, ordered,
                 alocals, wlocals, cvars, lchain, locator, published,
                 linked, fixed, fx_done>>

\* l.82-88: VChainHashLookup, LWLockRelease; a miss returns false
LookLookup ==
  /\ lpc = "l_lookup"
  /\ LET r == VChainHashLookup(index) IN
       /\ lockS' = lockS \ {Reader}
       /\ IF r.found
            THEN /\ lchain' = r.dsap
                 /\ lpc' = "l_set"
                 /\ ret' = ret
            ELSE /\ lchain' = lchain
                 /\ lpc' = "done"
                 /\ ret' = NotFound
  /\ UNCHANGED <<index, nanchor, lockX, prev, next, flag, timestamp, clock, ndebug, ordered,
                 alocals, wlocals, cvars, locator, snapshot, published, hist>>

\* l.91: SetTimestamp()
LookSetEpoch ==
  /\ lpc = "l_set"
  /\ published' = TRUE
  /\ lpc' = "l_empty"
  /\ UNCHANGED <<shared, ndebug, ordered, alocals, wlocals, cvars, lchain, locator,
                 snapshot, ret, hist>>

\* l.93-94: chain->dsap_prev == chain->dsap
LookEmpty ==
  /\ lpc = "l_empty"
  /\ lpc' = IF prev[lchain] = lchain THEN "l_clear_empty" ELSE "l_tail"
  /\ UNCHANGED <<shared, ndebug, ordered, alocals, wlocals, cvars, lchain, locator,
                 snapshot, published, ret, hist>>

\* LookTail entering the chain at the head (dsap_next) instead of the tail
LookTailFromHead ==
  /\ lpc = "l_tail"
  /\ locator' = next[lchain]
  /\ lpc' = "l_walk"
  /\ UNCHANGED <<shared, ndebug, ordered, alocals, wlocals, cvars, lchain, snapshot,
                 published, ret, hist>>

\* l.109: locator = chain->dsap_prev
LookTail ==
  /\ lpc = "l_tail"
  /\ locator' = prev[lchain]
  /\ lpc' = "l_walk"
  /\ UNCHANGED <<shared, ndebug, ordered, alocals, wlocals, cvars, lchain, snapshot,
                 published, ret, hist>>

\* l.110-124: one iteration of the walk; locator is what dsa_get_address made
\* of the link read, NULL for InvalidDsaPointer, and locator->dsap then faults
LookWalk ==
  /\ lpc = "l_walk"
  /\ IF locator = NULL
       THEN /\ lpc' = "crashed"
            /\ UNCHANGED locator
       ELSE IF locator = lchain
       THEN /\ lpc' = "l_clear_miss"
            /\ UNCHANGED locator
       ELSE IF ~XidInMVCCSnapshot(xminOf(locator), snapshot)
         THEN /\ lpc' = "l_clear_found"
              /\ UNCHANGED locator
         ELSE /\ locator' = prev[locator]
              /\ lpc' = "l_walk"
  /\ UNCHANGED <<shared, ndebug, ordered, alocals, wlocals, cvars, lchain, snapshot,
                 published, ret, hist>>

\* LookClearEmpty returning without ClearTimestamp()
LookClearEmptyNoRetract ==
  /\ lpc = "l_clear_empty"
  /\ ret' = NotFound
  /\ lpc' = "done"
  /\ UNCHANGED <<shared, ndebug, ordered, alocals, wlocals, cvars, lchain, locator,
                 snapshot, published, hist>>

\* l.99-101: ClearTimestamp(); return false (empty chain)
LookClearEmpty ==
  /\ lpc = "l_clear_empty"
  /\ published' = FALSE
  /\ ret' = NotFound
  /\ lpc' = "done"
  /\ UNCHANGED <<shared, ndebug, ordered, alocals, wlocals, cvars, lchain, locator,
                 snapshot, hist>>

\* l.115-120: *ret_locator = locator; ClearTimestamp(); return true
LookClearFound ==
  /\ lpc = "l_clear_found"
  /\ published' = FALSE
  /\ ret' = locator
  /\ locator' = NULL
  /\ lpc' = "done"
  /\ UNCHANGED <<shared, ndebug, ordered, alocals, wlocals, cvars, lchain,
                 snapshot, hist>>

\* LookClearMiss returning true with the locator the walk stopped on
LookClearMissFound ==
  /\ lpc = "l_clear_miss"
  /\ published' = FALSE
  /\ ret' = locator
  /\ locator' = NULL
  /\ lpc' = "done"
  /\ UNCHANGED <<shared, ndebug, ordered, alocals, wlocals, cvars, lchain,
                 snapshot, hist>>

\* l.128-130: ClearTimestamp(); return false (no visible version)
LookClearMiss ==
  /\ lpc = "l_clear_miss"
  /\ published' = FALSE
  /\ ret' = NotFound
  /\ locator' = NULL
  /\ lpc' = "done"
  /\ UNCHANGED <<shared, ndebug, ordered, alocals, wlocals, cvars, lchain,
                 snapshot, hist>>

\* ---------------------------------------------------------- specifications
AppendStep(a) ==
  \/ AppLookup(a) \/ AppXLock(a) \/ AppInsert(a) \/ AppReadTail(a)
  \/ AppExchange(a) \/ AppSpin(a) \/ AppLink1(a) \/ AppLink2(a)
  \/ AppLink3(a) \/ AppLink4(a) \/ AppUnmark(a)

FixStep(p) ==
  \/ FixReadPrev(p) \/ FixReadNext(p) \/ FixStore1(p) \/ FixStore2(p)
  \/ FixStamp(p)

LookStep ==
  \/ LookLookup \/ LookSetEpoch \/ LookEmpty \/ LookTail \/ LookWalk
  \/ LookClearEmpty \/ LookClearFound \/ LookClearMiss

Quiet == /\ \A a \in App : ~InFlight(a)
         /\ pc[Cutter] = "idle"
         /\ lpc \in {"idle", "done"}

\* inserters, the cutter and the reader, all concurrent
Next ==
  \/ \E a \in App : AppStart(a)
  \/ \E a \in App : AppendStep(a)
  \/ \E p \in Workers : FixStep(p)
  \/ \E t \in VNodes : CutExchange(t)
  \/ \E s \in SUBSET Stamps : LookStart(s)
  \/ LookStep

Spec == Init /\ [][Next]_vars

\* no other inserter is inside VChainAppendLocator
Alone(a) == \A b \in App \ {a} : ~InFlight(b)

\* the two parties of the consensus protocol: one inserter at a time (the
\* writers of a key take turns) and the cutter, concurrent with each other
NextCut ==
  \/ \E a \in App : Alone(a) /\ AppStart(a)
  \/ \E a \in App : AppendStep(a)
  \/ \E p \in Workers : FixStep(p)
  \/ \E t \in VNodes : CutExchange(t)

SpecCut == Init /\ [][NextCut]_vars

\* at most one other inserter is inside VChainAppendLocator
Paired(a) == Cardinality({b \in App \ {a} : InFlight(b)}) <= 1

\* the cutter and inserters of which up to two overlap
NextPair ==
  \/ \E a \in App : Paired(a) /\ AppStart(a)
  \/ \E a \in App : AppendStep(a)
  \/ \E p \in Workers : FixStep(p)
  \/ \E t \in VNodes : CutExchange(t)

SpecPair == Init /\ [][NextPair]_vars

\* concurrent inserters alone: with no cutter no exchange returns VL_DELETE,
\* so the spin and VChainFixUpOne are never entered
NextApp ==
  \/ \E a \in App : AppStart(a)
  \/ \E a \in App : AppLookup(a)
  \/ \E a \in App : AppXLock(a)
  \/ \E a \in App : AppInsert(a)
  \/ \E a \in App : AppReadTail(a)
  \/ \E a \in App : AppExchange(a)
  \/ \E a \in App : AppLink1(a)
  \/ \E a \in App : AppLink2(a)
  \/ \E a \in App : AppLink3(a)
  \/ \E a \in App : AppLink4(a)
  \/ \E a \in App : AppUnmark(a)

SpecApp == Init /\ [][NextApp]_vars

\* one client: every call starts when no other call is in flight, so a call
\* never meets a marked flag and a lookup never meets a half-built chain
NextSeq ==
  \/ \E a \in App : Quiet /\ AppStart(a)
  \/ \E a \in App : AppLookup(a)
  \/ \E a \in App : AppXLock(a)
  \/ \E a \in App : AppInsert(a)
  \/ \E a \in App : AppReadTail(a)
  \/ \E a \in App : AppExchange(a)
  \/ \E a \in App : AppLink1(a)
  \/ \E a \in App : AppLink2(a)
  \/ \E a \in App : AppLink3(a)
  \/ \E a \in App : AppLink4(a)
  \/ \E a \in App : AppUnmark(a)
  \/ \E s \in SUBSET Stamps : Quiet /\ LookStart(s)
  \/ LookLookup \/ LookSetEpoch \/ LookEmpty \/ LookTail \/ LookWalk
  \/ LookClearFound \/ LookClearMiss

SpecSeq == Init /\ [][NextSeq]_vars

\* one inserter at a time and the reader, concurrent with each other
NextRead ==
  \/ \E a \in App : Alone(a) /\ AppStart(a)
  \/ \E a \in App : AppLookup(a)
  \/ \E a \in App : AppXLock(a)
  \/ \E a \in App : AppInsert(a)
  \/ \E a \in App : AppReadTail(a)
  \/ \E a \in App : AppExchange(a)
  \/ \E a \in App : AppLink1(a)
  \/ \E a \in App : AppLink2(a)
  \/ \E a \in App : AppLink3(a)
  \/ \E a \in App : AppLink4(a)
  \/ \E a \in App : AppUnmark(a)
  \/ \E s \in SUBSET Stamps : LookStart(s)
  \/ LookStep

SpecRead == Init /\ [][NextRead]_vars

\* the reader and inserters of which up to two overlap, concurrent with each
\* other, no cutter
NextLook ==
  \/ \E a \in App : Paired(a) /\ AppStart(a)
  \/ \E a \in App : AppLookup(a)
  \/ \E a \in App : AppXLock(a)
  \/ \E a \in App : AppInsert(a)
  \/ \E a \in App : AppReadTail(a)
  \/ \E a \in App : AppExchange(a)
  \/ \E a \in App : AppLink1(a)
  \/ \E a \in App : AppLink2(a)
  \/ \E a \in App : AppLink3(a)
  \/ \E a \in App : AppLink4(a)
  \/ \E a \in App : AppUnmark(a)
  \/ \E s \in SUBSET Stamps : LookStart(s)
  \/ LookStep


\* the build that keeps assert() and emits the stores of l.203-206 in
\* program order
InitStd == Init /\ ordered /\ ~ndebug

\* NextLook in the standard build
SpecLook == InitStd /\ [][NextLook]_vars

\* every backend inside a call keeps being scheduled: a step of it that stays
\* possible is eventually taken
Progress ==
  /\ \A a \in App : WF_vars(AppendStep(a))
  /\ \A p \in Workers : WF_vars(FixStep(p))

\* SpecPair in the standard build, with every backend making progress
LivePair == InitStd /\ [][NextPair]_vars /\ Progress

\* SpecRead with the inserter and the reader making progress
LiveRead == Init /\ [][NextRead]_vars /\ Progress /\ WF_vars(LookStep)

\* ------------------------------------------------------- chain predicates
\* the nodes of the chain of dummy node c: c and what either walk meets
ChainNodes(c) == {c} \cup Range(ChainPrev(c)) \cup Range(ChainNext(c))

\* n.next.prev = n and n.prev.next = n
MutualAt(n) ==
  /\ prev[n] # NULL
  /\ next[n] # NULL
  /\ prev[next[n]] = n
  /\ next[prev[n]] = n

Mutual(c) == \A n \in ChainNodes(c) : MutualAt(n)

\* inserter a is past its winning exchange and before its exchange back
InLinkWindow(a) == pc[a] \in {"a_link", "a_unmark"}

\* process p is inside VChainFixUpOne
InFixup(p) == pc[p] \in {"fx_prev", "fx_next", "fx_store1", "fx_store2", "fx_stamp"}

\* no process has faulted on a NULL address
NoFault ==
  /\ \A p \in Workers : pc[p] # "crashed"
  /\ lpc # "crashed"

\* every Append has returned and the cutter is between removals
Settled ==
  /\ \A a \in App : pc[a] = "done"
  /\ pc[Cutter] = "idle"

\* node n is visible under the reader's snapshot (l.112)
Visible(n) == ~XidInMVCCSnapshot(xminOf(n), snapshot)

\* the first visible node of a tail-first sequence of nodes, or NotFound
NewestVisible(s) ==
  IF \E i \in 1..Len(s) : Visible(s[i])
    THEN s[CHOOSE i \in 1..Len(s) :
             Visible(s[i]) /\ \A j \in 1..(i - 1) : ~Visible(s[j])]
    ELSE NotFound

\* ================================================================ claims
\* C1: once M concurrent Append calls on one key have all returned (no
\* remover active), the chain reachable from the anchor holds exactly the M
\* appended nodes, pairwise distinct, with every prev/next pair mutual.
C1_AllAppended ==
  (index # NULL /\ \A a \in App : pc[a] = "done") =>
    /\ Len(ChainPrev(index)) = NumApp
    /\ Range(ChainPrev(index)) = VNodes
    /\ Mutual(index)

\* C2: at most one Append call on a chain is between its winning exchange of
\* tailPrev.syncFlag to AppendMarked and its exchange back to Idle.
C2_OneLinker ==
  Cardinality({a \in App : InLinkWindow(a)}) <= 1

\* C3: the store to anchor.prev is the linearization point of Append: whenever
\* anchor.prev is a node n handed to Append, the other link stores of that
\* Append (l.203-205) are in effect and both links of n are set. (The claim
\* also asks n.next = anchor.self and n.prev.next = n; those two a later Append
\* overwrites by design, so they are left out here and the formula asks less
\* than the claim.)
C3_Linearized ==
  \A a \in App :
    (index # NULL /\ prev[index] = a) =>
      /\ todo[a] \cap {1, 2, 3} = {}
      /\ prev[a] # NULL
      /\ next[a] # NULL

\* C4: every prev/next pair of the chain is mutual in every reachable state.
\* Taken here on the states that ask least of it: no Append is between its
\* exchanges, no VChainFixUpOne is running and no process has faulted (inside
\* those windows a half-link is in place by construction, l.205 before l.206,
\* l.241 before l.242).
C4_MutualLinks ==
  (/\ index # NULL
   /\ NoFault
   /\ \A a \in App : ~InLinkWindow(a)
   /\ \A p \in Workers : ~InFixup(p)) => Mutual(index)

\* C5: on a chain built by sequential Append calls and not being modified,
\* Lookup returns the node nearest the tail, in prev order, whose creator
\* stamp is visible under the snapshot, and false when there is none.
C5_NewestVisible ==
  [][(lpc # "done" /\ lpc' = "done") => ret' = NewestVisible(ChainPrev(index))]_vars

\* N = NumApp versions, the snapshot excludes exactly the newest one (k = 1),
\* and the call returned version N - 1
C5_Witness ==
  /\ lpc = "done"
  /\ Len(ChainPrev(index)) = NumApp
  /\ snapshot = {xminOf(ChainPrev(index)[1])}
  /\ ret = ChainPrev(index)[2]

\* C6: after the protocol settles, every node the remover exchanged on has
\* been unlinked by one VChainFixUpOne, run by the Append that held the node
\* (deferred removal) or by the remover itself; no execution ends with neither.
C6_Outcome ==
  Settled => \A t \in targeted : timestamp[t] # 0

\* C7: every chain dereference of Lookup happens with the caller's epoch
\* published, every ClearTimestamp follows a SetTimestamp, and the epoch is
\* not published before the call, after it, or on the no-anchor path.
C7_EpochBracket ==
  /\ lpc \in {"l_empty", "l_tail", "l_walk"} => published
  /\ lpc \in {"l_clear_empty", "l_clear_found", "l_clear_miss"} => published
  /\ lpc \in {"idle", "l_lookup", "l_set", "done"} => ~published

\* a call returned a node found by the walk, with its epoch retracted
C7_Witness ==
  /\ lpc = "done"
  /\ ret \in VNodes
  /\ ~published

\* C8: a step that stores node.deletionEpoch is taken by a VChainFixUpOne
\* call that has already executed both of its unlink stores.
C8_StampAfterUnlink ==
  [][\A n \in Nodes :
       timestamp'[n] # timestamp[n] =>
         \E p \in Workers : pc'[p] # pc[p] /\ mid[p] = n /\ fx_done[p] = 2]_vars

\* the cutter's VChainFixUpOne has stamped a node, and an inserter running a
\* deferred VChainFixUpOne has executed both unlink stores and not yet stamped
C8_Witness ==
  /\ \E n \in VNodes : timestamp[n] # 0
  /\ \E a \in App : /\ pc[a] = "fx_stamp"
                    /\ fx_done[a] = 2
                    /\ timestamp[mid[a]] = 0

\* C9: Lookup returns false, normally, when the key has no anchor, when the
\* chain is empty and when the walk comes back to the anchor; no step of
\* Lookup changes a link, a flag, a timestamp or the hash entry.
C9_NotFound ==
  [][/\ lvars' # lvars =>
          UNCHANGED <<index, nanchor, prev, next, flag, timestamp, clock>>
     /\ (lpc = "l_lookup" /\ lpc' # lpc /\ index = NULL)
          => (lpc' = "done" /\ ret' = NotFound)
     /\ (lpc = "l_empty" /\ lpc' # lpc /\ prev[lchain] = lchain)
          => lpc' = "l_clear_empty"
     /\ (lpc = "l_walk" /\ lpc' # lpc /\ locator = lchain)
          => lpc' = "l_clear_miss"
     /\ (lpc \in {"l_clear_empty", "l_clear_miss"} /\ lpc' # lpc)
          => (lpc' = "done" /\ ret' = NotFound)
     /\ lpc' = "done" => ret' \in {NotFound} \cup VNodes]_vars

\* a call on a key whose anchor exists and whose chain is empty returned false
C9_Witness ==
  /\ lpc = "done"
  /\ ret = NotFound
  /\ lchain # NULL
  /\ lchain = index
  /\ prev[index] = index
  /\ published = FALSE

C11_SpinsOnGranted ==
  [][\A a \in App :
       (/\ pc[a] = "a_xchg"
        /\ pc'[a] # "a_xchg"
        /\ InFixup(Cutter)
        /\ mid[Cutter] = dsap_tail_prev[a]) => pc'[a] = "a_spin"]_vars

\* C12: a deferred removal is neither lost nor run twice: the Append that
\* exchanges the flag of its tail_prev back goes into VChainFixUpOne on it
\* exactly when the node was targeted by the cutter, is not stamped yet and
\* nobody is unlinking it already.
C12_DeferredOnce ==
  [][\A a \in App :
       (pc[a] = "a_unmark" /\ pc'[a] # "a_unmark") =>
         LET t == dsap_tail_prev[a]
             busy == \E p \in Workers : InFixup(p) /\ mid[p] = t
         IN  /\ (t \in targeted /\ timestamp[t] = 0 /\ ~busy)
                  => pc'[a] = "fx_prev"
             /\ pc'[a] = "fx_prev" => (timestamp[t] = 0 /\ ~busy)]_vars

\* C13: neither unlink store of VChainFixUpOne(t) takes effect while an Append
\* that won the exchange on t as its tail_prev has its store to the anchor's
\* dsap_prev (l.206) still pending.
C13_NoUnlinkInWindow ==
  [][\A p \in Workers :
       (pc[p] \in {"fx_store1", "fx_store2"} /\ pc'[p] # pc[p]) =>
         ~\E a \in App : /\ pc[a] = "a_link"
                         /\ 4 \in todo[a]
                         /\ dsap_tail_prev[a] = mid[p]]_vars

\* C14: the assertion of l.201 always holds: the value the exchange of l.187
\* returns is VL_DELETE or VL_WINNER, never VL_APPEND.
C14_AssertHolds ==
  [][\A a \in App :
       (/\ pc[a] = "a_xchg"
        /\ pc'[a] # "a_xchg"
        /\ dsap_tail_prev[a] # NULL)
         => flag[dsap_tail_prev[a]] \in {VL_DELETE, VL_WINNER}]_vars

\* C15: the spin of an Append that lost the exchange always ends and the call
\* goes back to retry, provided the cutter completes the VChainFixUpOne it
\* was granted.
C15_SpinEnds ==
  \A a \in App : (pc[a] = "a_spin") ~> (pc[a] = "a_retry" \/ pc[Cutter] = "crashed")

\* C16: a Lookup never skips a version that is visible to its snapshot and
\* whose Append had returned when the Lookup started: it returns that
\* version or one linked after it, never an older one and never NotFound.
C16_NeverSkipped ==
  [][(lpc # "done" /\ lpc' = "done") =>
       \A a \in returned :
         Visible(a) =>
           /\ ret' \in VNodes
           /\ ret' \notin Range(WalkPrev(prev[a], index, NumApp + 1))]_vars

\* C17: when no Append and no VChainFixUpOne is in progress, no node on which
\* a VChainFixUpOne completed is reachable from the anchor by prev or by next
\* links, and no reachable node carries a timestamp.
C17_GoneForGood ==
  (/\ index # NULL
   /\ \A a \in App : ~InFlight(a)
   /\ pc[Cutter] = "idle") =>
    /\ fixed \cap ChainNodes(index) = {}
    /\ \A m \in ChainNodes(index) : timestamp[m] = 0

\* C18: when an Append goes back to retry after losing the exchange, the flag
\* of the node it lost on is still the VL_DELETE the cutter wrote: the loser
\* left no VL_APPEND of its own behind.
C18_NoClaimAtRetry ==
  [][\A a \in App :
       (pc[a] = "a_spin" /\ pc'[a] = "a_retry")
         => flag[dsap_tail_prev[a]] = VL_DELETE]_vars

\* C19: every Lookup that started returns, and holds no partition lock when
\* it does.
C19_Terminates ==
  (lpc = "l_lookup") ~> (lpc = "done" /\ Reader \notin lockS)

\* C20: a step of VChainFixUpOne(node) changes nothing in shared memory but
\* prev.next (to next), next.prev (to prev) and node's timestamp, prev and next
\* being node's dsap_prev and dsap_next as read at its start; node's own
\* links, every flag, the hash entry and the allocated nodes stay as they are.
C20_FixupFrame ==
  [][\A p \in Workers :
       (InFixup(p) /\ pc'[p] # pc[p]) =>
         /\ UNCHANGED <<index, nanchor, flag, lockX, lockS>>
         /\ prev'[mid[p]] = prev[mid[p]]
         /\ next'[mid[p]] = next[mid[p]]
         /\ pc[p] = "fx_prev" =>
              /\ fx_prev'[p] = prev[mid[p]]
              /\ UNCHANGED <<prev, next, timestamp>>
         /\ pc[p] = "fx_next" =>
              /\ fx_next'[p] = next[mid[p]]
              /\ UNCHANGED <<prev, next, timestamp>>
         /\ pc[p] = "fx_store1" =>
              /\ UNCHANGED <<prev, timestamp>>
              /\ \A n \in Nodes :
                   next'[n] # next[n] => (n = fx_prev[p] /\ next'[n] = fx_next[p])
         /\ pc[p] = "fx_store2" =>
              /\ UNCHANGED <<next, timestamp>>
              /\ \A n \in Nodes :
                   prev'[n] # prev[n] => (n = fx_next[p] /\ prev'[n] = fx_prev[p])
         /\ pc[p] = "fx_stamp" =>
              /\ UNCHANGED <<prev, next>>
              /\ \A n \in Nodes : timestamp'[n] # timestamp[n] => n = mid[p]]_vars

\* a VChainFixUpOne has run to its end on a node between two others: the
\* node is stamped and off the chain, its own links and the flag the cutter
\* left on it are as they were
C20_Witness ==
  \E n \in fixed :
    /\ timestamp[n] # 0
    /\ n \notin ChainNodes(index)
    /\ prev[n] \in VNodes
    /\ next[n] \in VNodes
    /\ flag[n] = VL_DELETE

====
